---- MODULE Spec2Model ----
(***************************************************************************)
(* Model of real_estate_scraper.py: the RealEstateScraper filter state,    *)
(* the keyword classifiers, the listing extractor/filter (scrape_listing), *)
(* the pagination driver (scrape_listings), the sink (save_results) and    *)
(* the entry point (main).                                                 *)
(*                                                                         *)
(* Text is a sequence of one-character strings.  A Python value is a       *)
(* record [t |-> type name, v |-> payload].  soup.find(...) is <<>> when   *)
(* there is no match and <<text>> when there is one.                       *)
(***************************************************************************)
EXTENDS Integers, Sequences, FiniteSets, TLC

VARIABLES
    filters,        \* self.filters: dict from filter name to Python value
    warnings,       \* names logged by logger.warning("Unknown filter: ...")
    calls,          \* number of set_filters calls made so far
    pc,             \* position of the program
    max_pages,      \* argument of scrape_listings
    page,           \* loop variable of scrape_listings
    listing_urls,   \* links discovered on the current search page
    idx,            \* position of the inner loop in listing_urls
    all_listings,   \* the accumulating result list
    log,            \* requests and pauses issued so far, in order
    sink,           \* what save_results did
    last_kwargs,    \* keyword arguments of the latest set_filters call
    prev,           \* self.filters before the latest set_filters call
    cur,            \* listing page handed to a single scrape_listing call
    ret             \* value returned by that call

vars == <<filters, warnings, calls, pc, max_pages, page, listing_urls, idx,
          all_listings, log, sink, last_kwargs,
          prev, cur, ret>>

(***************************************************************************)
(* Bounds of the model.                                                    *)
(***************************************************************************)
MaxPages == 2       \* largest page budget explored
MaxLinks == 2       \* largest number of listing-link anchors on a page
MaxCalls == 2       \* largest number of set_filters calls

(***************************************************************************)
(* Python values.                                                          *)
(***************************************************************************)
PyNone == [t |-> "NoneType", v |-> 0]

PyBool(b) == [t |-> "bool", v |-> b]

PyInt(n) == [t |-> "int", v |-> n]

PyStr(s) == [t |-> "str", v |-> s]

PySet(S) == [t |-> "set", v |-> S]

PyList(s) == [t |-> "list", v |-> s]

PyTuple(s) == [t |-> "tuple", v |-> s]

PyKeys(s) == [t |-> "dict_keys", v |-> s]

PyDict(d) == [t |-> "dict", v |-> d]

SeqTypes == {"list", "tuple", "dict_keys"}

\* bool(x), as used by `if x` and `x and ...`
Truthy(x) ==
    CASE x.t = "NoneType" -> FALSE
      [] x.t = "bool" -> x.v
      [] x.t = "int" -> x.v # 0
      [] x.t = "str" -> x.v # <<>>
      [] x.t = "set" -> x.v # {}
      [] x.t \in SeqTypes -> x.v # <<>>
      [] x.t = "dict" -> DOMAIN x.v # {}

\* the elements an iteration over container c yields
Elems(c) == IF c.t = "set" THEN c.v ELSE {c.v[i] : i \in DOMAIN c.v}

\* x in c, for the containers above
PyIn(x, c) == x \in Elems(c)

Digit(d) == <<"0","1","2","3","4","5","6","7","8","9">>[d + 1]

RECURSIVE IntToText(_)
\* decimal numeral of a non-negative int
IntToText(n) == IF n < 10 THEN <<Digit(n)>>
                ELSE Append(IntToText(n \div 10), Digit(n % 10))

\* str(x)
str(x) == IF x.t = "str" THEN x ELSE PyStr(IntToText(x.v))

(***************************************************************************)
(* Text operations.                                                        *)
(***************************************************************************)
Upper == <<"A","B","C","D","E","F","G","H","I","J","K","L","M","N","O","P","Q","R","S","T","U","V","W","X","Y","Z">>

LowerCase == <<"a","b","c","d","e","f","g","h","i","j","k","l","m","n","o","p","q","r","s","t","u","v","w","x","y","z">>

Digits == {"0","1","2","3","4","5","6","7","8","9"}

Whitespace == {" ", "\t", "\n"}

LowerChar(c) == IF \E i \in DOMAIN Upper : Upper[i] = c
                THEN LowerCase[CHOOSE i \in DOMAIN Upper : Upper[i] = c]
                ELSE c

\* a lower() that leaves the text as it is
lower_Identity(s) == s

\* str.lower()
lower(s) == [i \in DOMAIN s |-> LowerChar(s[i])]

\* str.strip()
strip(s) ==
    LET keep == {i \in DOMAIN s : s[i] \notin Whitespace}
    IN  IF keep = {} THEN <<>>
        ELSE LET lo == CHOOSE i \in keep : \A j \in keep : i <= j
                 hi == CHOOSE i \in keep : \A j \in keep : j <= i
             IN  SubSeq(s, lo, hi)

\* indicator in text
Contains(text, indicator) ==
    \E i \in 0..(Len(text) - Len(indicator)) :
        SubSeq(text, i + 1, i + Len(indicator)) = indicator

\* \w of the regular expression
IsWordChar(c) ==
    \/ c \in Digits
    \/ c = "_"
    \/ \E i \in DOMAIN Upper : Upper[i] = c \/ LowerCase[i] = c

\* start positions of the matches of \b(\d{5})\b in text
ZipMatches(text) ==
    {i \in 1..(Len(text) - 4) :
        /\ \A j \in i..(i + 4) : text[j] \in Digits
        /\ (i = 1 \/ ~IsWordChar(text[i - 1]))
        /\ (i + 4 = Len(text) \/ ~IsWordChar(text[i + 5]))}

(***************************************************************************)
(* Classifiers.                                                            *)
(***************************************************************************)
accessibility_indicators == <<
    <<"w","h","e","e","l","c","h","a","i","r"," ","a","c","c","e","s","s","i","b","l","e">>,
    <<"a","d","a"," ","c","o","m","p","l","i","a","n","t">>,
    <<"h","a","n","d","i","c","a","p"," ","a","c","c","e","s","s","i","b","l","e">>,
    <<"a","c","c","e","s","s","i","b","l","e"," ","u","n","i","t">>,
    <<"a","c","c","e","s","s","i","b","i","l","i","t","y"," ","f","e","a","t","u","r","e","s">> >>

section8_indicators == <<
    <<"s","e","c","t","i","o","n"," ","8">>,
    <<"s","e","c","t","i","o","n"," ","8"," ","a","c","c","e","p","t","e","d">>,
    <<"s","e","c","t","i","o","n"," ","8"," ","w","e","l","c","o","m","e">>,
    <<"h","o","u","s","i","n","g"," ","c","h","o","i","c","e"," ","v","o","u","c","h","e","r">>,
    <<"h","c","v"," ","w","e","l","c","o","m","e">> >>

is_wheelchair_accessible(soup) ==
    IF soup.description # <<>>
    THEN \E k \in DOMAIN accessibility_indicators :
            Contains(lower(soup.description[1]), accessibility_indicators[k])
    ELSE FALSE

accepts_section_8(soup) ==
    IF soup.description # <<>>
    THEN \E k \in DOMAIN section8_indicators :
            Contains(lower(soup.description[1]), section8_indicators[k])
    ELSE FALSE

(***************************************************************************)
(* extract_zip_code                                                        *)
(***************************************************************************)
\* an extract_zip_code that takes the last match of the pattern
extract_zip_code_LastMatch(soup) ==
    IF soup.address # <<>>
    THEN LET text == strip(soup.address[1])
             m == ZipMatches(text)
         IN  IF m # {}
             THEN LET i == CHOOSE i \in m : \A j \in m : j <= i
                  IN  SubSeq(text, i, i + 4)
             ELSE <<>>
    ELSE <<>>

extract_zip_code(soup) ==
    IF soup.address # <<>>
    THEN LET text == strip(soup.address[1])
             m == ZipMatches(text)
         IN  IF m # {}
             THEN LET i == CHOOSE i \in m : \A j \in m : i <= j
                  IN  SubSeq(text, i, i + 4)
             ELSE <<>>
    ELSE <<>>

(***************************************************************************)
(* Module constants and the filter state.                                  *)
(***************************************************************************)
\* keys of the MIAMI_ZIP_CODES dict, in insertion order
MIAMI_ZIP_CODES == <<
    <<"3","3","1","2","5">>,
    <<"3","3","1","2","7">>,
    <<"3","3","1","2","8">>,
    <<"3","3","1","3","0">>,
    <<"3","3","1","3","1">>,
    <<"3","3","1","3","2">>,
    <<"3","3","1","3","3">>,
    <<"3","3","1","3","4">>,
    <<"3","3","1","3","5">>,
    <<"3","3","1","3","6">>,
    <<"3","3","1","3","7">>,
    <<"3","3","1","3","8">> >>

\* self.filters after __init__
InitFilters ==
    [min_price |-> PyNone, max_price |-> PyNone,
     min_bedrooms |-> PyNone, max_bedrooms |-> PyNone,
     property_type |-> PyNone,
     zip_codes |-> PySet({}),
     wheelchair_accessible |-> PyBool(FALSE),
     section_8_accepted |-> PyBool(FALSE),
     min_sqft |-> PyNone, max_sqft |-> PyNone]

\* the value set_filters stores for one known key
StoredValue(key, value) ==
    IF key = "zip_codes" /\ value.t \in {"list", "set"}
    THEN PySet({str(zip_code) : zip_code \in Elems(value)})
    ELSE value

\* a set_filters that stores every name it is given
set_filters_StoreUnknown(f, kwargs) ==
    [key \in DOMAIN f \cup DOMAIN kwargs |->
        IF key \in DOMAIN kwargs THEN StoredValue(key, kwargs[key]) ELSE f[key]]

\* self.filters after set_filters(**kwargs)
set_filters(f, kwargs) ==
    [key \in DOMAIN f |->
        IF key \in DOMAIN kwargs THEN StoredValue(key, kwargs[key]) ELSE f[key]]

\* the names set_filters warns about
UnknownFilters(f, kwargs) == {key \in DOMAIN kwargs : key \notin DOMAIN f}

\* build_search_url: ",".join(...) raises TypeError on a non-str element;
\* nothing else in it can raise.  The text of the URL is not modelled.
build_search_url(f) ==
    IF Truthy(f.zip_codes) /\ \E z \in Elems(f.zip_codes) : z.t # "str"
    THEN "TypeError"
    ELSE "url"

(***************************************************************************)
(* scrape_listing                                                          *)
(***************************************************************************)
\* the locators whose result is dereferenced with .text
LocatedFields == {"title", "price", "bedrooms", "bathrooms", "sqft",
                  "address", "description"}

\* a check that rejects only when both requirements fail
RequirementsRejected_Both(f, soup) ==
    /\ Truthy(f.wheelchair_accessible) /\ ~is_wheelchair_accessible(soup)
    /\ Truthy(f.section_8_accepted) /\ ~accepts_section_8(soup)

\* a check that also turns down every listing once a maximum price is set
RequirementsRejected_MaxPrice(f, soup) ==
    \/ Truthy(f.wheelchair_accessible) /\ ~is_wheelchair_accessible(soup)
    \/ Truthy(f.section_8_accepted) /\ ~accepts_section_8(soup)
    \/ f.max_price # PyNone

\* the accessibility / Section 8 check made before extraction
RequirementsRejected(f, soup) ==
    \/ Truthy(f.wheelchair_accessible) /\ ~is_wheelchair_accessible(soup)
    \/ Truthy(f.section_8_accepted) /\ ~accepts_section_8(soup)

\* building listing_data raises AttributeError (None has no .text)
ExtractionFails(soup) == \E fld \in LocatedFields : soup[fld] = <<>>

\* the listing_data dict
listing_data(soup, url) ==
    [title |-> strip(soup.title[1]),
     price |-> strip(soup.price[1]),
     bedrooms |-> strip(soup.bedrooms[1]),
     bathrooms |-> strip(soup.bathrooms[1]),
     sqft |-> strip(soup.sqft[1]),
     address |-> strip(soup.address[1]),
     zip_code |-> extract_zip_code(soup),
     wheelchair_accessible |-> is_wheelchair_accessible(soup),
     section_8_accepted |-> accepts_section_8(soup),
     description |-> strip(soup.description[1]),
     url |-> url]

\* a ZIP check without the guard for an empty allowed set
ZipRejected_NoGuard(f, data) == ~PyIn(PyStr(data.zip_code), f.zip_codes)

\* a ZIP check that lets a listing without a ZIP code through
ZipRejected_EmptyPasses(f, data) ==
    /\ Truthy(f.zip_codes)
    /\ data.zip_code # <<>>
    /\ ~PyIn(PyStr(data.zip_code), f.zip_codes)

\* a scrape_listing without the ZIP check
ZipRejected_Never(f, data) == FALSE

\* the ZIP check made after extraction
ZipRejected(f, data) ==
    Truthy(f.zip_codes) /\ ~PyIn(PyStr(data.zip_code), f.zip_codes)

\* a scrape_listing that returns what it has when a locator finds nothing
scrape_listing_PartialOnFailure(f, resp, url) ==
    IF ~resp.ok THEN PyNone
    ELSE IF RequirementsRejected(f, resp) THEN PyNone
    ELSE IF ExtractionFails(resp) THEN PyDict([url |-> url])
    ELSE IF ZipRejected(f, listing_data(resp, url)) THEN PyNone
    ELSE PyDict(listing_data(resp, url))

\* scrape_listing(url), where resp is what the site answers for url:
\* resp.ok is FALSE when requests.get or raise_for_status raises
scrape_listing(f, resp, url) ==
    IF ~resp.ok THEN PyNone
    ELSE IF RequirementsRejected(f, resp) THEN PyNone
    ELSE IF ExtractionFails(resp) THEN PyNone
    ELSE IF ZipRejected(f, listing_data(resp, url)) THEN PyNone
    ELSE PyDict(listing_data(resp, url))

(***************************************************************************)
(* The site: listing pages and search pages.                               *)
(***************************************************************************)
TitleText == <<" ","S","u","n","n","y"," ","A","p","t"," ">>

PriceText == <<"$","1","5","0","0">>

BedroomsText == <<"2">>

BathroomsText == <<"1">>

SqftText == <<"9","0","0">>

AddrBrickell == <<"1"," ","M","a","i","n"," ","S","t",","," ","M","i","a","m","i",","," ","F","L"," ","3","3","1","3","1">>

AddrHavana == <<"1","2"," ","B","a","y"," ","R","d",","," ","M","i","a","m","i"," ","F","L"," ","3","3","1","2","5">>

AddrNumbered == <<"1","2","3","4","5"," ","B","a","y"," ","R","d",","," ","M","i","a","m","i"," ","F","L"," ","3","3","1","2","5">>

AddrNoZip == <<"9"," ","E","l","m"," ","S","t",","," ","M","i","a","m","i">>

AddrSixDigits == <<"1","2","3","4","5","6"," ","B","a","y"," ","R","d",","," ","M","i","a","m","i">>

AddrGlued == <<"A","p","t"," ","A","3","3","1","3","1",","," ","M","i","a","m","i">>

AddrZipPlus4 == <<"1"," ","M","a","i","n"," ","S","t",","," ","M","i","a","m","i",","," ","F","L"," ","3","3","1","3","1","-","1","2","3","4">>

DescBoth == <<"A","D","A"," ","c","o","m","p","l","i","a","n","t","."," ","S","e","c","t","i","o","n"," ","8"," ","W","e","l","c","o","m","e">>

DescSection8 == <<"H","o","u","s","i","n","g"," ","C","h","o","i","c","e"," ","V","o","u","c","h","e","r"," ","o","k">>

DescAccessible == <<"W","h","e","e","l","c","h","a","i","r"," ","A","c","c","e","s","s","i","b","l","e">>

DescPlain == <<"N","i","c","e"," ","f","l","a","t">>

DescNoSpace == <<"S","e","c","t","i","o","n","8"," ","o","k">>

DescUpper == <<"S","E","C","T","I","O","N"," ","8"," ","A","C","C","E","P","T","E","D">>

DescHyphen == <<"A","D","A","-","c","o","m","p","l","i","a","n","t"," ","u","n","i","t">>

FullPage(addr, desc) ==
    [ok |-> TRUE, title |-> <<TitleText>>, price |-> <<PriceText>>,
     bedrooms |-> <<BedroomsText>>, bathrooms |-> <<BathroomsText>>,
     sqft |-> <<SqftText>>, address |-> <<addr>>, description |-> <<desc>>]

FaultPage == [FullPage(AddrBrickell, DescBoth) EXCEPT !.ok = FALSE]

\* no listing page has been requested
NoPage ==
    [ok |-> FALSE, title |-> <<>>, price |-> <<>>, bedrooms |-> <<>>,
     bathrooms |-> <<>>, sqft |-> <<>>, address |-> <<>>, description |-> <<>>]

\* what the site answers for the listing URLs the search pages link to
ListingPages == <<
    FullPage(AddrBrickell, DescBoth),
    FullPage(AddrHavana, DescPlain),
    [FullPage(AddrBrickell, DescBoth) EXCEPT !.title = <<>>],
    FaultPage,
    [FullPage(AddrHavana, DescBoth) EXCEPT !.price = <<>>],
    [FullPage(AddrBrickell, DescPlain) EXCEPT !.address = <<>>] >>

Urls == DOMAIN ListingPages

\* a listing-link anchor: <<url>> with an href, <<>> without one
NoHref == <<>>

\* the anchor lists of the search pages the site may answer with
SearchCatalog == {
    <<>>,
    << <<1>> >>,
    << <<3>> >>,
    << NoHref >>,
    << <<1>>, <<2>> >>,
    << <<2>>, <<1>> >>,
    << <<4>>, <<1>> >>,
    << <<2>>, <<2>> >>,
    << <<3>>, <<4>> >>,
    << <<5>>, <<1>> >>,
    << <<6>>, <<2>> >>,
    << <<1>>, NoHref >>,
    << <<2>>, <<3>>, <<1>> >>,
    << <<1>>, <<4>>, <<2>> >>,
    << NoHref, <<1>>, <<2>> >>,
    << <<2>>, <<1>>, <<3>>, <<1>> >> }

\* what the site answers for a search page: a transport fault, or a page
SearchResponses ==
    {[ok |-> FALSE, anchors |-> <<>>]}
        \cup {[ok |-> TRUE, anchors |-> a] :
                a \in {c \in SearchCatalog : Len(c) <= MaxLinks}}

(***************************************************************************)
(* scrape_listings, save_results, main                                     *)
(***************************************************************************)
\* the head of `for page in range(1, max_pages + 1)`
LoopHead(p, mp) == IF p <= mp THEN "fetch" ELSE "ret"

\* a loop that goes on with the next page after an error (`continue`)
PageError_Continue(p, mp) == [pc |-> LoopHead(p + 1, mp), page |-> p + 1]

\* a page loop without its except clause: the error leaves scrape_listings
PageError_Raise(p, mp) == [pc |-> "raised", page |-> p]

\* the except clause of the page loop: log the error and break
PageError(p, mp) == [pc |-> "ret", page |-> p]

\* a driver that inserts at the front of the list
Accumulate_Prepend(listings, d) ==
    IF Truthy(d) THEN <<d.v>> \o listings ELSE listings

\* `if listing_data: all_listings.append(listing_data)`
Accumulate(listings, d) == IF Truthy(d) THEN Append(listings, d.v) ELSE listings

\* a driver that leaves the inner loop at the first listing skipped
AfterLink_BreakOnNone(i, n, d) == IF Truthy(d) THEN i + 1 ELSE n + 1

\* the inner loop moves to the next URL whatever scrape_listing returned
AfterLink(i, n, d) == i + 1

\* a driver that pauses only after a page that had links
RateLimit_OnlyIfLinks(lg, p, urls) ==
    IF urls = <<>> THEN lg
    ELSE Append(lg, [e |-> "pause", page |-> p, pos |-> 0, url |-> 0,
                     out |-> "slept", links |-> <<>>])

\* time.sleep(2) at the end of the page's try block
RateLimit(lg, p, urls) ==
    Append(lg, [e |-> "pause", page |-> p, pos |-> 0, url |-> 0,
                out |-> "slept", links |-> <<>>])

\* a sink that writes whatever it is given
save_results_AlwaysWrite(listings) ==
    [invoked |-> TRUE, arg |-> listings, wrote |-> TRUE,
     rows |-> listings, msg |-> "Results saved"]

\* save_results(listings)
save_results(listings) ==
    IF listings = <<>>
    THEN [invoked |-> TRUE, arg |-> listings, wrote |-> FALSE,
          rows |-> <<>>, msg |-> "No listings to save"]
    ELSE [invoked |-> TRUE, arg |-> listings, wrote |-> TRUE,
          rows |-> listings, msg |-> "Results saved"]

NoSink == [invoked |-> FALSE, arg |-> <<>>, wrote |-> FALSE,
           rows |-> <<>>, msg |-> ""]

\* log entry of a search-page request: its outcome and, when the page was
\* parsed, the listing URLs found on it
SearchEvent(p, out, links) ==
    [e |-> "search", page |-> p, pos |-> 0, url |-> 0, out |-> out,
     links |-> links]

ListingEvent(p, i, url, d) ==
    [e |-> "listing", page |-> p, pos |-> i, url |-> url,
     out |-> IF Truthy(d) THEN "accepted" ELSE "skipped", links |-> <<>>]

\* the state after RealEstateScraper()
Init ==
    /\ filters = InitFilters
    /\ warnings = {}
    /\ calls = 0
    /\ pc = "config"
    /\ max_pages = 0
    /\ page = 0
    /\ listing_urls = <<>>
    /\ idx = 0
    /\ all_listings = <<>>
    /\ log = <<>>
    /\ sink = NoSink
    /\ last_kwargs = <<>>
    /\ prev = InitFilters
    /\ cur = NoPage
    /\ ret = PyNone

\* scraper.set_filters(**kw)
SetFilters(kw) ==
    /\ pc = "config"
    /\ calls < MaxCalls
    /\ filters' = set_filters(filters, kw)
    /\ warnings' = warnings \cup UnknownFilters(filters, kw)
    /\ calls' = calls + 1
    /\ last_kwargs' = kw
    /\ prev' = filters
    /\ UNCHANGED <<pc, max_pages, page, listing_urls, idx, all_listings, log,
                   sink, cur, ret>>

\* entry of scraper.scrape_listings(max_pages=mp)
StartRun(mp) ==
    /\ pc = "config"
    /\ max_pages' = mp
    /\ all_listings' = <<>>
    /\ page' = 1
    /\ pc' = LoopHead(1, mp)
    /\ UNCHANGED <<filters, warnings, calls, listing_urls, idx, log, sink,
                   last_kwargs, prev, cur, ret>>

\* one pass through the top of the try block: build the URL, fetch the
\* search page (the site answers resp), collect the listing URLs
FetchSearchPage(resp) ==
    /\ pc = "fetch"
    /\ IF build_search_url(filters) = "TypeError"
       THEN /\ pc' = PageError(page, max_pages).pc
            /\ page' = PageError(page, max_pages).page
            /\ UNCHANGED <<log, listing_urls, idx>>
       ELSE IF ~resp.ok
       THEN /\ log' = Append(log, SearchEvent(page, "fault", <<>>))
            /\ pc' = PageError(page, max_pages).pc
            /\ page' = PageError(page, max_pages).page
            /\ UNCHANGED <<listing_urls, idx>>
       ELSE IF \E i \in DOMAIN resp.anchors : resp.anchors[i] = <<>>
       THEN /\ log' = Append(log, SearchEvent(page, "KeyError", <<>>))
            /\ pc' = PageError(page, max_pages).pc
            /\ page' = PageError(page, max_pages).page
            /\ UNCHANGED <<listing_urls, idx>>
       ELSE /\ listing_urls' = [i \in DOMAIN resp.anchors |-> resp.anchors[i][1]]
            /\ log' = Append(log, SearchEvent(page, "ok", listing_urls'))
            /\ idx' = 1
            /\ pc' = "links"
            /\ UNCHANGED page
    /\ UNCHANGED <<filters, warnings, calls, max_pages, all_listings, sink,
                   last_kwargs, prev, cur, ret>>

\* one iteration of `for url in listing_urls`
ScrapeLink ==
    /\ pc = "links"
    /\ idx <= Len(listing_urls)
    /\ LET url == listing_urls[idx]
           d == scrape_listing(filters, ListingPages[url], url)
       IN  /\ log' = Append(log, ListingEvent(page, idx, url, d))
           /\ all_listings' = Accumulate(all_listings, d)
           /\ idx' = AfterLink(idx, Len(listing_urls), d)
    /\ UNCHANGED <<filters, warnings, calls, pc, max_pages, page, listing_urls,
                   sink, last_kwargs, prev, cur, ret>>

\* the inner loop is over: pause, then the next iteration of the page loop
EndPage ==
    /\ pc = "links"
    /\ idx > Len(listing_urls)
    /\ log' = RateLimit(log, page, listing_urls)
    /\ page' = page + 1
    /\ pc' = LoopHead(page + 1, max_pages)
    /\ UNCHANGED <<filters, warnings, calls, max_pages, listing_urls, idx,
                   all_listings, sink, last_kwargs, prev, cur, ret>>

\* scrape_listings has returned all_listings: main hands it to save_results
SaveResults ==
    /\ pc = "ret"
    /\ sink' = save_results(all_listings)
    /\ pc' = "done"
    /\ UNCHANGED <<filters, warnings, calls, max_pages, page, listing_urls, idx,
                   all_listings, log, last_kwargs, prev, cur, ret>>

(***************************************************************************)
(* Inputs.                                                                 *)
(***************************************************************************)
Zip33131 == <<"3","3","1","3","1">>

Zip33125 == <<"3","3","1","2","5">>

\* the call main makes
MainKwargs ==
    [min_price |-> PyInt(1000), max_price |-> PyInt(3000),
     min_bedrooms |-> PyInt(1), max_bedrooms |-> PyInt(3),
     property_type |-> PyStr(<<"a","p","a","r","t","m","e","n","t">>),
     zip_codes |-> PyKeys([i \in DOMAIN MIAMI_ZIP_CODES |-> PyStr(MIAMI_ZIP_CODES[i])]),
     wheelchair_accessible |-> PyBool(TRUE),
     section_8_accepted |-> PyBool(TRUE),
     min_sqft |-> PyInt(600), max_sqft |-> PyInt(1500)]

\* values a caller passes as zip_codes: a list, a set, a tuple or a
\* dict-keys view, of strings or of integers
ZipInputs ==
    {PySet({}), PyList(<<>>), PyTuple(<<>>),
     PySet({PyStr(Zip33131), PyStr(Zip33125)}),
     PySet({PyInt(33131)}),
     PyList(<<PyInt(33131), PyStr(Zip33131), PyInt(33125)>>),
     PyList(<<PyStr(Zip33125)>>),
     PyTuple(<<PyStr(Zip33131)>>),
     PyTuple(<<PyInt(33131), PyInt(33125)>>),
     PyKeys(<<PyStr(Zip33125), PyStr(Zip33131)>>),
     PyKeys(<<PyInt(33131)>>),
     PyList(<<PyStr(<<>>), PyStr(Zip33131)>>)}

\* keyword-argument sets of the set_filters calls explored
FilterKwargs ==
    {MainKwargs,
     [wheelchair_accessible |-> PyBool(TRUE)],
     [section_8_accepted |-> PyBool(TRUE), wheelchair_accessible |-> PyBool(FALSE)],
     [min_price |-> PyInt(3000), max_price |-> PyInt(1000)],
     [max_bedrooms |-> PyInt(0)],
     [bogus |-> PyInt(1)],
     [wheelchair |-> PyBool(TRUE), zip_codes |-> PyList(<<PyInt(33125)>>)],
     [zipcodes |-> PyList(<<PyStr(Zip33131)>>), section_8_accepted |-> PyBool(TRUE)]}
        \cup {[zip_codes |-> z] : z \in ZipInputs}

\* keyword-argument sets of the one set_filters call main makes before a run
RunKwargs ==
    {MainKwargs,
     [wheelchair_accessible |-> PyBool(TRUE), bogus |-> PyInt(1)],
     [zip_codes |-> PyList(<<PyInt(33125)>>)],
     [zip_codes |-> PyTuple(<<PyInt(33131)>>)]}

(***************************************************************************)
(* Specifications.                                                         *)
(***************************************************************************)
\* main: at most one set_filters call, then one run, then the sink
MainSetFilters == \E kw \in RunKwargs : calls = 0 /\ SetFilters(kw)

MainScrape == \E mp \in 0..MaxPages : StartRun(mp)

Fetch == \E resp \in SearchResponses : FetchSearchPage(resp)

Next ==
    \/ MainSetFilters
    \/ MainScrape
    \/ Fetch
    \/ ScrapeLink
    \/ EndPage
    \/ SaveResults

Spec == Init /\ [][Next]_vars

\* `for url in listing_urls` has a URL left: ScrapeLink can take a step
LinkPending == pc = "links" /\ idx <= Len(listing_urls)

\* main, where every fetch comes back (with a response or a fault) and the
\* interpreter goes on to the next statement of scrape_listings: weak
\* fairness of Fetch, ScrapeLink and EndPage.  The last conjunct is
\* WF_vars(ScrapeLink) with ENABLED <<ScrapeLink>>_vars written out as
\* LinkPending (a ScrapeLink step appends to log, so it changes vars).
SpecFair ==
    /\ Spec
    /\ WF_vars(Fetch)
    /\ WF_vars(EndPage)
    /\ ([]<>(~LinkPending) \/ []<><<ScrapeLink>>_vars)

\* any sequence of set_filters calls on a fresh scraper
Configure == \E kw \in FilterKwargs : SetFilters(kw)

NextFilters == Configure

SpecFilters == Init /\ [][NextFilters]_vars

\* one scrape_listing call on an arbitrary listing page
AddressTexts ==
    {AddrBrickell, AddrHavana, AddrNumbered, AddrNoZip, AddrSixDigits,
     AddrGlued, AddrZipPlus4}

DescriptionTexts ==
    {DescBoth, DescSection8, DescAccessible, DescPlain, DescNoSpace,
     DescUpper, DescHyphen}

Found(texts) == {<<>>} \cup {<<x>> : x \in texts}

\* listing pages on which any of the seven locators may find nothing
MissingFieldPages ==
    [ok : {TRUE},
     title : Found({TitleText}), price : Found({PriceText}),
     bedrooms : Found({BedroomsText}), bathrooms : Found({BathroomsText}),
     sqft : Found({SqftText}),
     address : Found({AddrBrickell, AddrNoZip}),
     description : Found({DescBoth, DescPlain})]

\* listing pages with every field, over all address and description texts
TextPages == {FullPage(addr, desc) : addr \in AddressTexts, desc \in DescriptionTexts}

\* the answers of the site to a listing request
ListingPageSpace == {FaultPage} \cup MissingFieldPages \cup TextPages

ListingKwargs ==
    {[wheelchair_accessible |-> PyBool(w), section_8_accepted |-> PyBool(s),
      zip_codes |-> z] : w \in BOOLEAN, s \in BOOLEAN, z \in ZipInputs}

TestUrl == 1

InitListing ==
    /\ filters \in {set_filters(InitFilters, kw) : kw \in ListingKwargs}
    /\ cur \in ListingPageSpace
    /\ pc = "listing"
    /\ ret = PyNone
    /\ warnings = {}
    /\ calls = 0
    /\ max_pages = 0
    /\ page = 0
    /\ listing_urls = <<>>
    /\ idx = 0
    /\ all_listings = <<>>
    /\ log = <<>>
    /\ sink = NoSink
    /\ last_kwargs = <<>>
    /\ prev = InitFilters

\* self.scrape_listing(url), the site answering cur
ScrapeOne ==
    /\ pc = "listing"
    /\ ret' = scrape_listing(filters, cur, TestUrl)
    /\ pc' = "listed"
    /\ UNCHANGED <<filters, warnings, calls, max_pages, page, listing_urls, idx,
                   all_listings, log, sink, last_kwargs, prev, cur>>

\* self.is_wheelchair_accessible(soup), soup parsed from cur
CallWheelchair ==
    /\ pc = "listing"
    /\ cur.ok
    /\ ret' = PyBool(is_wheelchair_accessible(cur))
    /\ pc' = "wheelchair"
    /\ UNCHANGED <<filters, warnings, calls, max_pages, page, listing_urls, idx,
                   all_listings, log, sink, last_kwargs, prev, cur>>

\* self.accepts_section_8(soup), soup parsed from cur
CallSection8 ==
    /\ pc = "listing"
    /\ cur.ok
    /\ ret' = PyBool(accepts_section_8(cur))
    /\ pc' = "section8"
    /\ UNCHANGED <<filters, warnings, calls, max_pages, page, listing_urls, idx,
                   all_listings, log, sink, last_kwargs, prev, cur>>

\* self.extract_zip_code(soup), soup parsed from cur
CallExtractZip ==
    /\ pc = "listing"
    /\ cur.ok
    /\ ret' = PyStr(extract_zip_code(cur))
    /\ pc' = "zip"
    /\ UNCHANGED <<filters, warnings, calls, max_pages, page, listing_urls, idx,
                   all_listings, log, sink, last_kwargs, prev, cur>>

NextListing == ScrapeOne \/ CallWheelchair \/ CallSection8 \/ CallExtractZip

SpecListing == InitListing /\ [][NextListing]_vars

(***************************************************************************)
(* Properties.                                                             *)
(***************************************************************************)
IsSearch(ev) == ev.e = "search"

IsListing(ev) == ev.e = "listing"

IsPause(ev) == ev.e = "pause"

IsAccepted(ev) == ev.e = "listing" /\ ev.out = "accepted"

IsSkipped(ev) == ev.e = "listing" /\ ev.out = "skipped"

\* the listing links handled and accepted so far, in the order handled
AcceptedEvents == SelectSeq(log, IsAccepted)

\* (p, i) is discovered before (q, j)
Before(p, i, q, j) == p < q \/ (p = q /\ i < j)

\* the run of scrape_listings is over
RunOver == pc \in {"ret", "done"}

\* C1: the result list holds exactly the accepted listings of the pages
\* processed, in page-major, link-minor discovery order: its k-th entry is
\* the listing of the k-th accepted link, links are handled in increasing
\* (page, position) order, every link handled is the link found at that
\* position of a fetched page, and no link of a finished page is left out.
C1_DiscoveryOrder ==
    /\ Len(all_listings) = Len(AcceptedEvents)
    /\ \A k \in DOMAIN AcceptedEvents :
          all_listings[k] =
              listing_data(ListingPages[AcceptedEvents[k].url], AcceptedEvents[k].url)
    /\ \A a, b \in DOMAIN log :
          (a < b /\ IsListing(log[a]) /\ IsListing(log[b]))
              => Before(log[a].page, log[a].pos, log[b].page, log[b].pos)
    /\ \A a \in DOMAIN log :
          IsListing(log[a]) =>
              \E b \in 1..(a - 1) :
                  /\ IsSearch(log[b]) /\ log[b].out = "ok"
                  /\ log[b].page = log[a].page
                  /\ log[a].pos \in DOMAIN log[b].links
                  /\ log[b].links[log[a].pos] = log[a].url
    /\ \A b, c \in DOMAIN log :
          (IsSearch(log[b]) /\ IsPause(log[c]) /\ log[c].page = log[b].page)
              => \A i \in DOMAIN log[b].links :
                    \E a \in (b + 1)..(c - 1) :
                        IsListing(log[a]) /\ log[a].page = log[b].page
                            /\ log[a].pos = i

\* a finished run that accepted two links of one page, a link of another
\* page, and skipped a link
C1_Witness ==
    /\ pc = "done"
    /\ \E a, b, c \in DOMAIN AcceptedEvents :
          /\ a < b /\ b < c
          /\ AcceptedEvents[a].page = AcceptedEvents[b].page
          /\ AcceptedEvents[b].page < AcceptedEvents[c].page
          /\ AcceptedEvents[a].url # AcceptedEvents[b].url
    /\ \E a \in DOMAIN log : IsSkipped(log[a])

\* C2: once the fetch of search page k has faulted, nothing is fetched and no
\* pause is made afterwards, the run is over, the result list is exactly
\* the listings accepted from pages 1..k-1, all of them fully processed,
\* and when main is done the sink has been invoked with that list.
C2_SearchFaultAborts ==
    \A a \in DOMAIN log :
        (IsSearch(log[a]) /\ log[a].out = "fault") =>
            /\ a = Len(log)
            /\ RunOver
            /\ log[a].page \in 1..max_pages
            /\ \A q \in 1..(log[a].page - 1) :
                  \E c \in 1..(a - 1) : IsPause(log[c]) /\ log[c].page = q
            /\ Len(all_listings) = Len(AcceptedEvents)
            /\ \A k \in DOMAIN AcceptedEvents :
                  /\ AcceptedEvents[k].page < log[a].page
                  /\ all_listings[k].url = AcceptedEvents[k].url
            /\ pc = "done" => (sink.invoked /\ sink.arg = all_listings)

\* main is done after the fetch of page 2 faulted, with listings from page 1
C2_Witness ==
    /\ pc = "done"
    /\ log # <<>>
    /\ IsSearch(log[Len(log)]) /\ log[Len(log)].out = "fault"
    /\ log[Len(log)].page = 2
    /\ Len(all_listings) >= 2
    /\ sink.invoked /\ sink.wrote

\* the links found on search page p, once it has been fetched and parsed
LinksOf(p) ==
    LET b == CHOOSE b \in DOMAIN log : IsSearch(log[b]) /\ log[b].page = p
    IN  log[b].links

Handled(p, i) ==
    \E a \in DOMAIN log : IsListing(log[a]) /\ log[a].page = p /\ log[a].pos = i

\* C3: a listing link that fails or is rejected is only skipped: the result
\* list keeps exactly the accepted listings (nothing is added, dropped or
\* reset), the inner loop goes on behind the skipped link, and once the page
\* is left every later link of it has been handled, the pause was made and
\* the page loop went on to the next page.
C3_ListingFailureIsolated ==
    /\ Len(all_listings) = Len(AcceptedEvents)
    /\ \A a \in DOMAIN log :
          IsSkipped(log[a]) =>
              LET p == log[a].page
                  i == log[a].pos
              IN  IF pc = "links" /\ page = p
                  THEN /\ idx > i
                       /\ \A j \in (i + 1)..(idx - 1) : Handled(p, j)
                  ELSE /\ \A j \in (i + 1)..Len(LinksOf(p)) : Handled(p, j)
                       /\ \E c \in DOMAIN log :
                             c > a /\ IsPause(log[c]) /\ log[c].page = p
                       /\ page > p
                       /\ p < max_pages =>
                             \/ pc = "fetch" /\ page = p + 1
                             \/ \E b \in DOMAIN log :
                                   b > a /\ IsSearch(log[b]) /\ log[b].page = p + 1

\* a finished run in which a link was skipped, a later link of the same page
\* was accepted and the next page was fetched
C3_Witness ==
    /\ pc = "done"
    /\ \E a, b, c \in DOMAIN log :
          /\ a < b /\ b < c
          /\ IsSkipped(log[a]) /\ IsAccepted(log[b])
          /\ log[a].page = log[b].page
          /\ IsSearch(log[c]) /\ log[c].page = log[a].page + 1

\* the ZIP codes the stored zip_codes filter allows
AllowedZips == Elems(filters.zip_codes)

\* every check of scrape_listing other than the ZIP check lets cur through
OtherChecksPass ==
    /\ cur.ok
    /\ \A fld \in LocatedFields : cur[fld] # <<>>
    /\ Truthy(filters.wheelchair_accessible) => is_wheelchair_accessible(cur)
    /\ Truthy(filters.section_8_accepted) => accepts_section_8(cur)

\* C4: with a non-empty allowed-ZIP set a listing whose extracted zip_code
\* is not in the set is rejected; with an empty allowed-ZIP set the ZIP
\* check rejects nothing: a listing that passes every other check is
\* returned, whatever its zip_code.
C4_ZipFilter ==
    pc = "listed" =>
        /\ (AllowedZips # {} /\ PyStr(extract_zip_code(cur)) \notin AllowedZips)
              => ret = PyNone
        /\ (AllowedZips = {} /\ OtherChecksPass)
              => (ret.t = "dict" /\ ret.v.zip_code = extract_zip_code(cur))

\* a listing without a ZIP code is returned under an empty allowed-ZIP set
C4_Witness ==
    /\ pc = "listed"
    /\ AllowedZips = {}
    /\ OtherChecksPass
    /\ extract_zip_code(cur) = <<>>
    /\ ret.t = "dict"

\* C5: when the wheelchair_accessible filter is set and the accessibility
\* classifier says no, scrape_listing returns no listing.
C5_WheelchairRequired ==
    (pc = "listed" /\ Truthy(filters.wheelchair_accessible)
        /\ ~is_wheelchair_accessible(cur))
        => ret = PyNone

\* the accessibility requirement is the only check the listing fails
C5_Witness ==
    /\ pc = "listed"
    /\ Truthy(filters.wheelchair_accessible)
    /\ ~is_wheelchair_accessible(cur)
    /\ cur.ok
    /\ \A fld \in LocatedFields : cur[fld] # <<>>
    /\ accepts_section_8(cur)
    /\ AllowedZips = {}
    /\ ret = PyNone

\* the page numbers of the search pages requested so far, in order
PagesFetched ==
    LET s == SelectSeq(log, IsSearch) IN [k \in DOMAIN s |-> s[k].page]

\* C6: a finished run in which no search-page fetch faulted has fetched the
\* search pages 1, 2, ..., max_pages, in this order, each once.
C6_FullBudget ==
    (RunOver /\ \A a \in DOMAIN log : ~(IsSearch(log[a]) /\ log[a].out = "fault"))
        => PagesFetched = [k \in 1..max_pages |-> k]

\* C7: save_results given an empty list writes no file and reports that
\* there is nothing to save; a file is written only for a non-empty list,
\* and then with the listings it was given.
C7_EmptySink ==
    /\ (sink.invoked /\ sink.arg = <<>>)
          => (~sink.wrote /\ sink.msg = "No listings to save")
    /\ sink.wrote => (sink.invoked /\ sink.arg # <<>> /\ sink.rows = sink.arg)
    /\ pc = "done" => (sink.invoked /\ sink.arg = all_listings)

\* a run that fetched pages and listings ends with nothing to save
C7_Witness ==
    /\ pc = "done"
    /\ sink.invoked /\ sink.arg = <<>> /\ ~sink.wrote
    /\ \E a \in DOMAIN log : IsListing(log[a])

\* C8: between two successive search-page fetches there is exactly one
\* pause, whatever the earlier page held.
C8_OnePause ==
    \A a, b \in DOMAIN log :
        (a < b /\ IsSearch(log[a]) /\ IsSearch(log[b])
            /\ \A c \in (a + 1)..(b - 1) : ~IsSearch(log[c]))
            => Cardinality({c \in (a + 1)..(b - 1) : IsPause(log[c])}) = 1

\* two successive fetches, the earlier page without any link
C8_Witness ==
    \E a \in DOMAIN log :
        /\ a + 2 \in DOMAIN log
        /\ IsSearch(log[a]) /\ log[a].out = "ok" /\ log[a].links = <<>>
        /\ IsPause(log[a + 1])
        /\ IsSearch(log[a + 2])

\* the names of the latest set_filters call that are no filter names
UnknownNames == {key \in DOMAIN last_kwargs : key \notin DOMAIN prev}

\* the string forms of the elements of container c
StringForms(c) == {str(z) : z \in Elems(c)}

\* C9: a set_filters call with an unknown name adds no key, leaves every
\* filter it does not name unchanged, warns about the unknown name and
\* still applies the known names of the call.
C9_UnknownFilterIgnored ==
    (calls > 0 /\ UnknownNames # {}) =>
        /\ DOMAIN filters = DOMAIN prev
        /\ UnknownNames \subseteq warnings
        /\ \A key \in DOMAIN prev :
              /\ key \notin DOMAIN last_kwargs => filters[key] = prev[key]
              /\ (key \in DOMAIN last_kwargs /\ key # "zip_codes")
                    => filters[key] = last_kwargs[key]
              /\ (key \in DOMAIN last_kwargs /\ key = "zip_codes")
                    => StringForms(filters[key]) = StringForms(last_kwargs[key])

\* a call with an unknown name and a known name that changes a filter
C9_Witness ==
    /\ calls > 0
    /\ UnknownNames # {}
    /\ "section_8_accepted" \in DOMAIN last_kwargs
    /\ filters.section_8_accepted # prev.section_8_accepted

\* C10: after set_filters was given zip_codes, the stored filter is a set
\* whose elements are the string forms of the values given.
C10_ZipCodesNormalised ==
    (calls > 0 /\ "zip_codes" \in DOMAIN last_kwargs) =>
        /\ filters.zip_codes.t = "set"
        /\ filters.zip_codes.v = StringForms(last_kwargs.zip_codes)

\* the page behind url was fetched and lacks a title, a price or an address
RequiredMissing(url) ==
    /\ ListingPages[url].ok
    /\ \E fld \in {"title", "price", "address"} : ListingPages[url][fld] = <<>>

\* C11: a listing page without title, price or address is a skip: the call
\* returns no listing, the driver does not enter its except clause, nothing
\* of that URL is in the result list, and the next URL of the page is
\* handled.
C11_RequiredFieldSkip ==
    \A a \in DOMAIN log :
        (IsListing(log[a]) /\ RequiredMissing(log[a].url)) =>
            LET p == log[a].page
                i == log[a].pos
            IN  /\ log[a].out = "skipped"
                /\ \A k \in DOMAIN all_listings :
                      all_listings[k].url # log[a].url
                /\ Len(all_listings) = Len(AcceptedEvents)
                /\ (pc = "links" /\ page = p /\ idx > i) \/ page > p
                /\ \/ i = Len(LinksOf(p))
                   \/ Handled(p, i + 1)
                   \/ pc = "links" /\ page = p /\ idx = i + 1

\* a page without price or address was skipped and the next link accepted
C11_Witness ==
    /\ pc = "done"
    /\ \E a \in DOMAIN log :
          /\ a + 1 \in DOMAIN log
          /\ IsSkipped(log[a])
          /\ ListingPages[log[a].url].ok
          /\ ListingPages[log[a].url].title # <<>>
          /\ RequiredMissing(log[a].url)
          /\ IsAccepted(log[a + 1])
          /\ log[a + 1].page = log[a].page

\* the address texts without a standalone 5-digit token
NoTokenAddresses == {AddrNoZip, AddrSixDigits, AddrGlued}

\* cur has title, price and an address without a 5-digit token
RequiredButNoZip ==
    /\ cur.ok
    /\ cur.title # <<>>
    /\ cur.price # <<>>
    /\ cur.address # <<>>
    /\ cur.address[1] \in NoTokenAddresses

AccessibleTexts == {DescBoth, DescAccessible}

\* the description texts that, lower-cased, contain a Section 8 phrase:
\* "section 8 welcome" (DescBoth), "housing choice voucher" (DescSection8),
\* "section 8 accepted" (DescUpper); DescNoSpace has "section8", no phrase
Section8Texts == {DescBoth, DescSection8, DescUpper}

\* C13: each classifier returns a boolean, true exactly when the page has
\* a description whose lower-cased text contains one of the classifier's
\* phrases, whatever the case of the description; without a description
\* container it returns false.
C13_ClassifiersByPhrase ==
    /\ pc = "wheelchair" =>
          ret = PyBool(/\ cur.description # <<>>
                       /\ cur.description[1] \in AccessibleTexts)
    /\ pc = "section8" =>
          ret = PyBool(/\ cur.description # <<>>
                       /\ cur.description[1] \in Section8Texts)

\* "Section 8 Welcome" in mixed case is classified subsidized
C13_Witness ==
    /\ pc = "section8"
    /\ cur.description = <<DescBoth>>
    /\ Contains(DescBoth, <<"S","e","c","t","i","o","n"," ","8"," ","W","e","l","c","o","m","e">>)
    /\ ret = PyBool(TRUE)

\* the pairs of bounds of the filters
BoundPairs ==
    {<<"min_price", "max_price">>, <<"min_bedrooms", "max_bedrooms">>,
     <<"min_sqft", "max_sqft">>}

\* C14: after any sequence of set_filters calls, every pair of bounds
\* whose two ends are set has its minimum at most its maximum.
C14_BoundsOrdered ==
    \A bp \in BoundPairs :
        (filters[bp[1]].t = "int" /\ filters[bp[2]].t = "int")
            => filters[bp[1]].v <= filters[bp[2]].v

\* all_listings is a list of listings extracted from pages of the site
IsResultSet ==
    \A k \in DOMAIN all_listings :
        \E url \in Urls :
            all_listings[k] = listing_data(ListingPages[url], url)

\* C15: a started run of scrape_listings reaches its return statement with
\* a (possibly empty) list of listings, whatever the search fetches, the
\* link discovery, the listing fetches and the extractions give.
C15_RunReturns ==
    (pc \in {"fetch", "links"}) ~> (pc = "ret" /\ IsResultSet)

\* a run has returned listings after a listing fetch fault and a search
\* fetch fault
C15_Witness ==
    /\ pc = "ret"
    /\ all_listings # <<>>
    /\ \E a \in DOMAIN log : IsSearch(log[a]) /\ log[a].out = "fault"
    /\ \E a \in DOMAIN log : IsSkipped(log[a]) /\ ~ListingPages[log[a].url].ok

\* set_filters calls that change only numeric bounds or the property type,
\* with bounds the listing texts (price $1500, 2 bedrooms, 900 sqft) are
\* outside of
NumericKwargs ==
    {[max_price |-> PyInt(1000)],
     [min_price |-> PyInt(3000)],
     [min_bedrooms |-> PyInt(5), max_bedrooms |-> PyInt(9)],
     [min_sqft |-> PyInt(2000)],
     [max_sqft |-> PyInt(100)],
     [property_type |-> PyStr(<<"c","o","n","d","o">>)],
     [min_price |-> PyInt(3000), max_price |-> PyInt(1000),
      property_type |-> PyStr(<<"h","o","u","s","e">>)]}

\* C16: a scraper whose filters differ from this one's only in numeric
\* bounds or property_type gets from the same listing page the same result
\* as this one: both a listing, or both nothing.
C16_BoundsNotEnforced ==
    pc = "listed" =>
        \A kw \in NumericKwargs :
            LET other == set_filters(filters, kw)
            IN  /\ other # filters
                /\ \A key \in {"zip_codes", "wheelchair_accessible",
                               "section_8_accepted"} : other[key] = filters[key]
                /\ scrape_listing(other, cur, TestUrl) = ret

\* a listing priced $1500 is returned although a scraper with max_price
\* 1000 is among those compared
C16_Witness ==
    /\ pc = "listed"
    /\ ret.t = "dict"
    /\ ret.v.price = PriceText
    /\ set_filters(filters, [max_price |-> PyInt(1000)]).max_price = PyInt(1000)
    /\ scrape_listing(set_filters(filters, [max_price |-> PyInt(1000)]),
                      cur, TestUrl).t = "dict"

\* C17: a run that is over with pages of its budget left (the page loop
\* was left by break at page <= max_pages) has had the fetch of that search
\* page fault.
C17_EarlyStopOnlyOnFault ==
    (RunOver /\ page <= max_pages) =>
        \E a \in DOMAIN log :
            /\ IsSearch(log[a])
            /\ log[a].page = page
            /\ log[a].out = "fault"

\* cur passes the accessibility, Section 8 and ZIP criteria of filters
PassesFilter ==
    /\ Truthy(filters.wheelchair_accessible) => is_wheelchair_accessible(cur)
    /\ Truthy(filters.section_8_accepted) => accepts_section_8(cur)
    /\ AllowedZips # {} => PyStr(extract_zip_code(cur)) \in AllowedZips

\* C18: a fetched listing page that has title, price and address and
\* passes the filter yields a listing, whether or not it has bedrooms,
\* bathrooms, square footage and description.
C18_OnlyRequiredFields ==
    (/\ pc = "listed"
     /\ cur.ok
     /\ \A fld \in {"title", "price", "address"} : cur[fld] # <<>>
     /\ PassesFilter)
        => ret.t = "dict"

\* the first standalone 5-digit token of each address text, read off the
\* text by hand: AddrNumbered starts with the street number 12345 and ends
\* with the postal code 33125; AddrSixDigits has the 6-digit token 123456,
\* AddrGlued the token A33131, AddrNoZip no digits beyond "9"; in
\* AddrZipPlus4 the token 33131 is followed by "-"
FirstToken(addr) ==
    CASE addr = AddrBrickell -> Zip33131
      [] addr = AddrHavana -> Zip33125
      [] addr = AddrNumbered -> <<"1","2","3","4","5">>
      [] addr = AddrZipPlus4 -> Zip33131
      [] addr \in NoTokenAddresses -> <<>>

\* the ZIP code expected for the page cur
ExpectedZip == IF cur.address = <<>> THEN <<>> ELSE FirstToken(cur.address[1])

\* the empty string or exactly five digits
ZipShaped(z) == z = <<>> \/ (Len(z) = 5 /\ \A i \in 1..5 : z[i] \in Digits)

\* C19: extract_zip_code returns, and every extracted listing carries as
\* zip_code, the first standalone 5-digit token of the address text, or
\* the empty string when there is none; so zip_code is always the empty
\* string or exactly five digits.
C19_FirstFiveDigitToken ==
    /\ pc = "zip" => (ret = PyStr(ExpectedZip) /\ ZipShaped(ret.v))
    /\ (pc = "listed" /\ ret.t = "dict") =>
          (ret.v.zip_code = ExpectedZip /\ ZipShaped(ret.v.zip_code))

\* the street number 12345 wins over the postal code 33125 behind it
C19_Witness ==
    /\ pc = "listed"
    /\ ret.t = "dict"
    /\ cur.address = <<AddrNumbered>>
    /\ ret.v.zip_code = <<"1","2","3","4","5">>

\* C20: at every point of a run every listing in all_listings satisfies
\* the active criteria: it is flagged wheelchair accessible if that filter
\* is set, flagged Section 8 if that filter is set, and its zip_code is in
\* the allowed-ZIP collection if that collection is non-empty.
C20_ResultsSatisfyCriteria ==
    \A k \in DOMAIN all_listings :
        /\ Truthy(filters.wheelchair_accessible)
              => all_listings[k].wheelchair_accessible
        /\ Truthy(filters.section_8_accepted)
              => all_listings[k].section_8_accepted
        /\ Truthy(filters.zip_codes)
              => PyStr(all_listings[k].zip_code) \in Elems(filters.zip_codes)

\* with a ZIP restriction active, one complete listing page was turned down
\* and another accepted
C20_Witness ==
    /\ Truthy(filters.zip_codes)
    /\ all_listings # <<>>
    /\ \E a \in DOMAIN log :
          /\ IsSkipped(log[a])
          /\ ListingPages[log[a].url].ok
          /\ ~ExtractionFails(ListingPages[log[a].url])

====
